---- MODULE Spec2Model ----
(***************************************************************************)
(* Model of the API integration proxy (src/main.py): the two mocked        *)
(* provider handlers, the provider registry, the credential validator and  *)
(* the integrate_provider endpoint with its try/except.                    *)
(*                                                                         *)
(* Python values are encoded as follows.                                   *)
(*   str              a TLA+ string                                        *)
(*   Dict[str, ...]   a function whose domain is a set of strings          *)
(*   Optional[Dict]   a sequence: <<>> is None, <<d>> is the dict d        *)
(*   float literal    the string of its digits ("15.99")                   *)
(*   the value of an expression whose type varies (str, bool or None)      *)
(*                    a record [t |-> "none"|"bool"|"str", v |-> ...]      *)
(***************************************************************************)
EXTENDS Naturals, Sequences, FiniteSets, TLC

VARIABLES pc, provider, request, handler_class, valid, result, exc,
          returned, raised, phases

vars == <<pc, provider, request, handler_class, valid, result, exc,
          returned, raised, phases>>

-----------------------------------------------------------------------------
(* Bounds of the model                                                     *)

MaxParams == 4
MaxCreds == 3
MaxDispatchParams == 1
MaxDispatchCreds == 2

-----------------------------------------------------------------------------
(* Enumerations and the request schema                                     *)

Provider == {"salesforce", "ups"}

AuthType == {"password", "api_key", "oauth"}

\* auth_type is Optional[AuthType]: a JSON null is accepted and arrives as None
NoAuthType == "None"

AuthTypeValues == AuthType \cup {NoAuthType}

SalesforceActions == <<"create_lead", "update_contact", "get_account">>

UPSActions == <<"track_package", "calculate_shipping", "create_shipment">>

Range(s) == {s[i] : i \in DOMAIN s}

\* action is a free-form str: the six known names and one name no handler knows
ActionValues == Range(SalesforceActions) \cup Range(UPSActions) \cup {"bogus_action"}

ParamKeys == {"email", "company", "contact_id", "phone", "account_id",
              "tracking_number", "origin_zip", "destination_zip", "weight",
              "service", "error"}

\* a caller's value is never one of the canned defaults; "" is a falsy value
ParamValues == {"caller", ""}

CredKeys == {"username", "password", "api_key", "access_token", "tenant"}

CredValues == {"secret", ""}

DispatchParamKeys == {"email", "tracking_number", "error"}

\* every dict over a subset of at most max of the keys
Bags(keys, vals, max) ==
    UNION {[S -> vals] : S \in {T \in SUBSET keys : Cardinality(T) <= max}}

None == <<>>

Some(d) == <<d>>

IntegrationRequest(action, parameters, auth_type, auth_credentials) ==
    [action |-> action, parameters |-> parameters,
     auth_type |-> auth_type, auth_credentials |-> auth_credentials]

NoRequest == IntegrationRequest("", <<>>, "api_key", None)

IntegrationResponse(status, data, prov, action) ==
    [status |-> status, data |-> data, provider |-> prov, action |-> action]

-----------------------------------------------------------------------------
(* Python helpers                                                          *)

PyNone == [t |-> "none", v |-> ""]

PyStr(s) == [t |-> "str", v |-> s]

PyBool(b) == [t |-> "bool", v |-> b]

\* truth value of a Python object: None and "" are falsy
Truthy(x) ==
    CASE x.t = "none" -> FALSE
      [] x.t = "bool" -> x.v
      [] x.t = "str"  -> x.v # ""

\* `a and b` yields a when a is falsy, else b
PyAnd(a, b) == IF Truthy(a) THEN b ELSE a

\* credentials.get(key): the value, or None when the key is absent
CredGet(credentials, key) ==
    IF key \in DOMAIN credentials THEN PyStr(credentials[key]) ELSE PyNone

\* a variant, `parameters.get(key) or default`: a falsy value gives the default
GetOrDefault(parameters, key, default) ==
    IF key \in DOMAIN parameters /\ parameters[key] # ""
    THEN parameters[key] ELSE default

\* parameters.get(key, default)
Get(parameters, key, default) ==
    IF key \in DOMAIN parameters THEN parameters[key] ELSE default

\* a variant, `is not None`: an empty dict counts as supplied
CredentialsNotNone(auth_credentials) == auth_credentials # None

\* `if request.auth_credentials:` holds of a dict that is neither None nor empty
CredentialsSupplied(auth_credentials) ==
    auth_credentials # None /\ DOMAIN auth_credentials[1] # {}

-----------------------------------------------------------------------------
(* Mocked provider handlers                                                *)

\* a variant that lists the actions in alphabetical order
SalesforceUnknownReordered(action) ==
    [error |-> "Unknown Salesforce action: " \o action,
     available_actions |-> <<"create_lead", "get_account", "update_contact">>]

\* the else branch of SalesforceHandler.handle_request
SalesforceUnknown(action) ==
    [error |-> "Unknown Salesforce action: " \o action,
     available_actions |-> <<"create_lead", "update_contact", "get_account">>]

SalesforceHandler(action, parameters) ==
    IF action = "create_lead" THEN
        [id |-> "00Q1234567890ABC",
         email |-> Get(parameters, "email", "test@example.com"),
         company |-> Get(parameters, "company", "Test Company"),
         status |-> "New",
         created_date |-> "2024-01-15T10:30:00Z"]
    ELSE IF action = "update_contact" THEN
        [id |-> Get(parameters, "contact_id", "0031234567890ABC"),
         email |-> Get(parameters, "email", "updated@example.com"),
         phone |-> Get(parameters, "phone", "+1234567890"),
         last_modified |-> "2024-01-15T10:30:00Z"]
    ELSE IF action = "get_account" THEN
        [id |-> Get(parameters, "account_id", "0011234567890ABC"),
         name |-> "Acme Corporation",
         industry |-> "Technology",
         annual_revenue |-> 1000000,
         employees |-> 500]
    ELSE
        SalesforceUnknown(action)

UPSHandler(action, parameters) ==
    IF action = "track_package" THEN
        [tracking_number |-> Get(parameters, "tracking_number", "1Z999AA1234567890"),
         status |-> "In Transit",
         location |-> "Memphis, TN",
         estimated_delivery |-> "2024-01-18T14:00:00Z",
         shipment_details |-> [weight |-> "2.5 lbs",
                               service |-> "Ground",
                               origin |-> "New York, NY",
                               destination |-> "Los Angeles, CA"]]
    ELSE IF action = "calculate_shipping" THEN
        [origin_zip |-> Get(parameters, "origin_zip", "10001"),
         destination_zip |-> Get(parameters, "destination_zip", "90210"),
         weight |-> Get(parameters, "weight", "5.0"),
         service |-> Get(parameters, "service", "Ground"),
         rate |-> "15.99",
         delivery_days |-> 5]
    ELSE IF action = "create_shipment" THEN
        [shipment_id |-> "UPS123456789",
         tracking_number |-> "1Z999AA1234567890",
         label_url |-> "https://api.ups.com/labels/123456789.pdf",
         rate |-> "25.50",
         estimated_delivery |-> "2024-01-18T14:00:00Z"]
    ELSE
        [error |-> "Unknown UPS action: " \o action,
         available_actions |-> <<"track_package", "calculate_shipping", "create_shipment">>]

\* a variant with the two handlers exchanged
PROVIDER_HANDLERS_Swapped ==
    [p \in Provider |-> IF p = "salesforce" THEN "UPSHandler" ELSE "SalesforceHandler"]

\* the provider registry
PROVIDER_HANDLERS ==
    [p \in Provider |-> IF p = "salesforce" THEN "SalesforceHandler" ELSE "UPSHandler"]

\* handler_class().handle_request(action, parameters, auth_credentials)
handle_request(cls, action, parameters) ==
    IF cls = "SalesforceHandler"
    THEN SalesforceHandler(action, parameters)
    ELSE UPSHandler(action, parameters)

-----------------------------------------------------------------------------
(* Credential validator                                                    *)

\* a variant that tests the presence of the two keys only
ValidatePasswordPresenceOnly(credentials) ==
    PyBool("username" \in DOMAIN credentials /\ "password" \in DOMAIN credentials)

\* credentials.get("username") and credentials.get("password")
ValidatePassword(credentials) ==
    PyAnd(CredGet(credentials, "username"), CredGet(credentials, "password"))

_validate_auth_credentials(auth_type, credentials) ==
    IF auth_type = "password" THEN
        ValidatePassword(credentials)
    ELSE IF auth_type = "api_key" THEN
        PyBool(CredGet(credentials, "api_key").t # "none")
    ELSE IF auth_type = "oauth" THEN
        PyBool(CredGet(credentials, "access_token").t # "none")
    ELSE PyBool(FALSE)

-----------------------------------------------------------------------------
(* integrate_provider                                                      *)

HTTPException(status_code, detail) ==
    [cls |-> "HTTPException", status_code |-> status_code, detail |-> detail]

\* HTTPException derives from Exception
ExceptionSubclasses == {"Exception", "HTTPException"}

\* a variant that lets an HTTPException through
ExceptExceptionButHTTP(e) == e.cls \in ExceptionSubclasses \ {"HTTPException"}

\* `except Exception as e` catches every instance of Exception and its subclasses
ExceptException(e) == e.cls \in ExceptionSubclasses

\* str(e) of an HTTPException is "<status_code>: <detail>"
Str(e) ==
    (IF e.status_code = 401 THEN "401" ELSE "400") \o ": " \o e.detail

\* a variant that ignores the validator's answer
AuthRejectedNever(v) == FALSE

\* `if not _validate_auth_credentials(...)`
AuthRejected(v) == ~Truthy(v)

\* a variant without the test for the `error` key
NormalizeAlwaysSuccess(prov, req, res) ==
    IntegrationResponse("success", res, prov, req.action)

\* the two return statements after the handler call
Normalize(prov, req, res) ==
    IF "error" \in DOMAIN res
    THEN IntegrationResponse("error", res, prov, req.action)
    ELSE IntegrationResponse("success", res, prov, req.action)

\* a variant whose envelope loses the requested action
InternalErrorNoEcho(prov, req, e) ==
    IntegrationResponse("error",
        [error |-> "Internal server error", message |-> Str(e),
         provider |-> prov, action |-> req.action],
        prov, "")

\* the return statement of the except block
InternalError(prov, req, e) ==
    IntegrationResponse("error",
        [error |-> "Internal server error", message |-> Str(e),
         provider |-> prov, action |-> req.action],
        prov, req.action)

-----------------------------------------------------------------------------
(* State machine                                                           *)

Init ==
    /\ pc = "idle"
    /\ provider = "salesforce"
    /\ request = NoRequest
    /\ handler_class = ""
    /\ valid = None
    /\ result = None
    /\ exc = None
    /\ returned = <<>>
    /\ raised = <<>>
    /\ phases = <<>>

\* a POST /integrate/{provider} that passed schema validation enters the endpoint
Submit(p, req) ==
    /\ pc = "idle"
    /\ pc' = "resolve"
    /\ provider' = p
    /\ request' = req
    /\ UNCHANGED <<handler_class, valid, result, exc, returned, raised, phases>>

\* provider check and registry lookup
ResolveHandler ==
    /\ pc = "resolve"
    /\ phases' = Append(phases, "resolve")
    /\ IF provider \notin DOMAIN PROVIDER_HANDLERS
       THEN /\ exc' = Some(HTTPException(400, "Unsupported provider: " \o provider))
            /\ pc' = "except"
            /\ UNCHANGED handler_class
       ELSE /\ handler_class' = PROVIDER_HANDLERS[provider]
            /\ pc' = "auth"
            /\ UNCHANGED exc
    /\ UNCHANGED <<provider, request, valid, result, returned, raised>>

\* credential validation, only when credentials were supplied
ValidateAuth ==
    /\ pc = "auth"
    /\ IF CredentialsSupplied(request.auth_credentials)
       THEN LET v == _validate_auth_credentials(request.auth_type,
                                                request.auth_credentials[1])
            IN /\ valid' = Some(v)
               /\ phases' = Append(phases, "authenticate")
               /\ IF AuthRejected(v)
                  THEN /\ exc' = Some(HTTPException(401,
                                        "Invalid authentication credentials"))
                       /\ pc' = "except"
                  ELSE /\ pc' = "execute"
                       /\ UNCHANGED exc
       ELSE /\ pc' = "execute"
            /\ UNCHANGED <<valid, phases, exc>>
    /\ UNCHANGED <<provider, request, handler_class, result, returned, raised>>

\* handler = handler_class(); result = await handler.handle_request(...)
HandleRequest ==
    /\ pc = "execute"
    /\ result' = Some(handle_request(handler_class, request.action, request.parameters))
    /\ phases' = Append(phases, "execute")
    /\ pc' = "normalize"
    /\ UNCHANGED <<provider, request, handler_class, valid, exc, returned, raised>>

\* wrap the handler's result in the envelope and return it
ReturnResponse ==
    /\ pc = "normalize"
    /\ returned' = Append(returned, Normalize(provider, request, result[1]))
    /\ phases' = Append(phases, "normalize")
    /\ pc' = "done"
    /\ UNCHANGED <<provider, request, handler_class, valid, result, exc, raised>>

\* the except block: a caught exception becomes an envelope, any other propagates
HandleException ==
    /\ pc = "except"
    /\ phases' = Append(phases, "except")
    /\ IF ExceptException(exc[1])
       THEN /\ returned' = Append(returned, InternalError(provider, request, exc[1]))
            /\ UNCHANGED raised
       ELSE /\ raised' = Append(raised, exc[1])
            /\ UNCHANGED returned
    /\ pc' = "done"
    /\ UNCHANGED <<provider, request, handler_class, valid, result, exc>>

\* a direct call of a provider's handler, as the handler tests make it
CallHandler(p, action, parameters) ==
    /\ pc = "idle"
    /\ pc' = "handled"
    /\ provider' = p
    /\ request' = IntegrationRequest(action, parameters, "api_key", None)
    /\ handler_class' = PROVIDER_HANDLERS[p]
    /\ result' = Some(handle_request(PROVIDER_HANDLERS[p], action, parameters))
    /\ UNCHANGED <<valid, exc, returned, raised, phases>>

\* a direct call of the credential validator
CallValidate(auth_type, credentials) ==
    /\ pc = "idle"
    /\ pc' = "validated"
    /\ request' = IntegrationRequest("", <<>>, auth_type, Some(credentials))
    /\ valid' = Some(_validate_auth_credentials(auth_type, credentials))
    /\ UNCHANGED <<provider, handler_class, result, exc, returned, raised, phases>>

\* the call is over; nothing of it persists
Finish ==
    /\ pc \in {"done", "handled", "validated"}
    /\ pc' = "idle"
    /\ provider' = "salesforce"
    /\ request' = NoRequest
    /\ handler_class' = ""
    /\ valid' = None
    /\ result' = None
    /\ exc' = None
    /\ returned' = <<>>
    /\ raised' = <<>>
    /\ phases' = <<>>

DispatchRequests ==
    {IntegrationRequest(a, ps, t, c) :
        a \in ActionValues,
        ps \in Bags(DispatchParamKeys, ParamValues, MaxDispatchParams),
        t \in AuthTypeValues,
        c \in {None} \cup {Some(d) : d \in Bags(CredKeys, CredValues, MaxDispatchCreds)}}

\* the receiving actions are enabled only when no call is in progress
Next ==
    \/ /\ pc = "idle"
       /\ \E p \in Provider, req \in DispatchRequests : Submit(p, req)
    \/ ResolveHandler
    \/ ValidateAuth
    \/ HandleRequest
    \/ ReturnResponse
    \/ HandleException
    \/ /\ pc = "idle"
       /\ \E p \in Provider, a \in ActionValues,
             ps \in Bags(ParamKeys, ParamValues, MaxParams) : CallHandler(p, a, ps)
    \/ /\ pc = "idle"
       /\ \E t \in AuthTypeValues,
             c \in Bags(CredKeys, CredValues, MaxCreds) : CallValidate(t, c)
    \/ Finish

Spec == Init /\ [][Next]_vars

-----------------------------------------------------------------------------
(* Properties                                                              *)

Dispatched == pc = "done"

Envelope == returned[1]

KnownActions(p) == IF p = "salesforce" THEN SalesforceActions ELSE UPSActions

ValidationFailed == valid # None /\ ~Truthy(valid[1])

\* the request carries a credential bag with at least one key
NonEmptyBag == \E i \in DOMAIN request.auth_credentials :
                  DOMAIN request.auth_credentials[i] # {}

\* C1: a dispatch whose credentials are supplied and fail validation ends in
\* the authentication rejection (status code 401) reaching the caller, and in
\* no envelope.
C1_AuthRejectionReachesCaller ==
    (Dispatched /\ NonEmptyBag /\ ValidationFailed)
        => /\ returned = <<>>
           /\ Len(raised) = 1
           /\ raised[1].cls = "HTTPException"
           /\ raised[1].status_code = 401

C3_EnvelopeEchoesRequest ==
    \A i \in DOMAIN returned :
        /\ returned[i].provider = provider
        /\ returned[i].action = request.action

C3_Witness ==
    /\ Dispatched
    /\ exc # None
    /\ returned # <<>>
    /\ Envelope.provider = "ups"
    /\ Envelope.action = "track_package"

\* C4: an envelope's status is "error" exactly when the handler's result has
\* an `error` key or an exception occurred in the dispatch, and "success"
\* otherwise; when no exception occurred its data is the handler's result.
C4_StatusIffError ==
    \A i \in DOMAIN returned :
        /\ returned[i].status \in {"success", "error"}
        /\ returned[i].status = "error"
              <=> \/ exc # None
                  \/ (result # None /\ "error" \in DOMAIN result[1])
        /\ exc = None =>
              /\ result # None
              /\ returned[i].data = result[1]
              /\ result[1] = handle_request(PROVIDER_HANDLERS[provider],
                                            request.action, request.parameters)

C4_Witness ==
    /\ Dispatched
    /\ exc = None
    /\ returned # <<>>
    /\ Envelope.status = "error"
    /\ "error" \in DOMAIN Envelope.data

\* C5: a handler given an action outside its provider's known set returns a
\* map with an `error` message naming the action and `available_actions`
\* equal to the provider's three known actions in declared order.
C5_UnknownActionError ==
    (pc = "handled" /\ request.action \notin Range(KnownActions(provider)))
        => /\ "error" \in DOMAIN result[1]
           /\ \E prefix \in {"Unknown Salesforce action: ", "Unknown UPS action: "} :
                 result[1].error = prefix \o request.action
           /\ "available_actions" \in DOMAIN result[1]
           /\ result[1].available_actions = KnownActions(provider)

C5_Witness ==
    /\ pc = "handled"
    /\ provider = "salesforce"
    /\ request.action = "track_package"
    /\ DOMAIN request.parameters = {"email", "error"}
    /\ "error" \in DOMAIN result[1]

\* C6: a handler given a known action of its provider returns a map without
\* an `error` key, whatever the parameters; a dispatch of a known action in
\* which no rejection was raised returns an envelope with status "success".
C6_KnownActionNoError ==
    /\ (pc = "handled" /\ request.action \in Range(KnownActions(provider)))
          => "error" \notin DOMAIN result[1]
    /\ (Dispatched /\ exc = None /\ request.action \in Range(KnownActions(provider)))
          => /\ "error" \notin DOMAIN result[1]
             /\ Len(returned) = 1
             /\ Envelope.status = "success"

C6_Witness ==
    /\ Dispatched
    /\ exc = None
    /\ provider = "salesforce"
    /\ request.action = "update_contact"
    /\ "error" \in DOMAIN request.parameters
    /\ Envelope.status = "success"

\* the presence rules of the credential validator
PresenceRule(auth_type, credentials) ==
    CASE auth_type = "password" ->
            /\ "username" \in DOMAIN credentials
            /\ credentials["username"] # ""
            /\ "password" \in DOMAIN credentials
            /\ credentials["password"] # ""
      [] auth_type = "api_key" -> "api_key" \in DOMAIN credentials
      [] auth_type = "oauth" -> "access_token" \in DOMAIN credentials
      [] OTHER -> FALSE

\* C7: the validator passes exactly under the presence rules: password needs
\* non-empty username and password, api_key the api_key key, oauth the
\* access_token key, and no other auth type value ever passes.
C7_ValidatePresenceRules ==
    valid # None =>
        (Truthy(valid[1]) <=> PresenceRule(request.auth_type, request.auth_credentials[1]))

C7_Witness ==
    /\ pc = "validated"
    /\ request.auth_type = "api_key"
    /\ "api_key" \in DOMAIN request.auth_credentials[1]
    /\ request.auth_credentials[1]["api_key"] = ""
    /\ "password" \in DOMAIN request.auth_credentials[1]
    /\ Truthy(valid[1])

InDispatch == pc \in {"resolve", "auth", "execute", "normalize", "except", "done"}

\* C8: in a dispatch the validator is called only for a non-empty credential
\* bag; a dispatch whose bag is absent or empty never validates, reaches
\* the handler and does not end in an authentication rejection.
C8_NoCredentialsSkipsValidation ==
    InDispatch =>
        /\ valid # None => NonEmptyBag
        /\ ~NonEmptyBag =>
              /\ "authenticate" \notin Range(phases)
              /\ exc = None
              /\ raised = <<>>
              /\ Dispatched => /\ "execute" \in Range(phases)
                               /\ result # None

C8_Witness ==
    /\ Dispatched
    /\ request.auth_credentials = Some(<<>>)
    /\ request.auth_type = "password"
    /\ valid = None
    /\ result # None

\* the result fields each known action draws from the parameter bag
Draws(action) ==
    CASE action = "create_lead" -> {<<"email", "email">>, <<"company", "company">>}
      [] action = "update_contact" ->
            {<<"id", "contact_id">>, <<"email", "email">>, <<"phone", "phone">>}
      [] action = "get_account" -> {<<"id", "account_id">>}
      [] action = "track_package" -> {<<"tracking_number", "tracking_number">>}
      [] action = "calculate_shipping" ->
            {<<"origin_zip", "origin_zip">>, <<"destination_zip", "destination_zip">>,
             <<"weight", "weight">>, <<"service", "service">>}
      [] OTHER -> {}

\* the result of the same call with an empty parameter bag: the canned values
Canned == handle_request(PROVIDER_HANDLERS[provider], request.action, <<>>)

\* C9: for a known action, a result field drawn from the parameter bag is the
\* caller's value when the key is present and the fixed default when it is
\* absent; the fields of the result do not depend on the bag, and create_lead
\* falls back to its defaults with status "New".
C9_DefaultSubstitution ==
    (pc = "handled" /\ request.action \in Range(KnownActions(provider))) =>
        /\ DOMAIN result[1] = DOMAIN Canned
        /\ "error" \notin DOMAIN result[1]
        /\ \A d \in Draws(request.action) :
              result[1][d[1]] = IF d[2] \in DOMAIN request.parameters
                                THEN request.parameters[d[2]]
                                ELSE Canned[d[1]]
        /\ request.action = "create_lead" =>
              /\ result[1].status = "New"
              /\ "email" \notin DOMAIN request.parameters =>
                    result[1].email = "test@example.com"
              /\ "company" \notin DOMAIN request.parameters =>
                    result[1].company = "Test Company"

C9_Witness ==
    /\ pc = "handled"
    /\ provider = "salesforce"
    /\ request.action = "create_lead"
    /\ DOMAIN request.parameters = {"email", "phone"}
    /\ request.parameters["email"] = ""
    /\ result[1].email = ""
    /\ result[1].company = "Test Company"

IsPrefix(s, t) == Len(s) <= Len(t) /\ SubSeq(t, 1, Len(s)) = s

DispatchOrders ==
    {<<"resolve", "authenticate", "execute", "normalize">>,
     <<"resolve", "execute", "normalize">>,
     <<"resolve", "authenticate", "except">>,
     <<"resolve", "except">>}

\* C10: the phases of a dispatch run in the order resolve, authenticate
\* (only with non-empty credentials), execute, normalize; the handler runs
\* at most once, only after validation passed or was skipped, and never in
\* a dispatch whose validation failed.
C10_PhaseOrder ==
    /\ \E o \in DispatchOrders : IsPrefix(phases, o)
    /\ Cardinality({i \in DOMAIN phases : phases[i] = "execute"}) <= 1
    /\ "authenticate" \in Range(phases) => NonEmptyBag
    /\ "execute" \in Range(phases) => ~ValidationFailed
    /\ ValidationFailed => result = None
    /\ (InDispatch /\ result # None) => "execute" \in Range(phases)

C10_Witness ==
    /\ Dispatched
    /\ ValidationFailed
    /\ phases = <<"resolve", "authenticate", "except">>
    /\ result = None

====
